---- MODULE Spec2Model ----
(***************************************************************************)
(* Model of rclcpp::SubscriptionOptionsWithAllocator<Allocator>            *)
(* (rclcpp/include/rclcpp/subscription_options.hpp).                       *)
(*                                                                         *)
(* A policy instance is a record holding the public fields that            *)
(* to_rcl_subscription_options() and get_allocator() read, plus the two    *)
(* private mutable slots allocator_storage_ and plain_allocator_storage_.  *)
(* Heap objects created by std::make_shared carry a fresh id, so that      *)
(* referential identity is distinguishable from value equality.            *)
(***************************************************************************)
EXTENDS Integers, Sequences, FiniteSets, TLC

\* ---------------------------------------------------------------- bounds
NumInst == 2        \* policy instances that may exist
NumUserAlloc == 1   \* distinct user-supplied allocator objects
MaxParams == 2      \* longest expression_parameters list explored
MaxObjs == 4        \* heap objects std::make_shared may create in a run

Inst == 1..NumInst

\* ------------------------------------------------------- values and heap
Null == [kind |-> "nullptr"]

\* Allocator objects owned by the user (ids below zero).
UserAllocators == {[kind |-> "Allocator", id |-> 0 - k] : k \in 1..NumUserAlloc}

\* The values the public `allocator` field can hold.
AllocatorValues == UserAllocators \cup {Null}

\* std::make_shared<Allocator>() : a fresh default-constructed allocator.
make_shared_Allocator(id) == [kind |-> "Allocator", id |-> id]

\* std::make_shared<PlainAllocator>(a) : a fresh rebind copy of allocator a.
make_shared_PlainAllocator(id, a) ==
  [kind |-> "PlainAllocator", id |-> id, from |-> a.id]

\* rclcpp::allocator::get_rcl_allocator<char>(plain): the descriptor keeps a
\* raw reference to the byte allocator in its state member.
rcl_allocator_t(plain) == [state |-> plain]

Params == {"a", "b"}
RECURSIVE SeqsUpTo(_)
SeqsUpTo(n) ==
  IF n = 0 THEN {<<>>}
  ELSE LET S == SeqsUpTo(n - 1)
       IN S \cup {Append(s, x) : s \in {t \in S : Len(t) = n - 1}, x \in Params}
ParamLists == SeqsUpTo(MaxParams)

FilterExpressions == {"", "x = %0"}

UniqueNetworkFlowValues ==
  {"RMW_UNIQUE_NETWORK_FLOW_ENDPOINTS_NOT_REQUIRED",
   "RMW_UNIQUE_NETWORK_FLOW_ENDPOINTS_STRICTLY_REQUIRED"}

\* rmw_implementation_payload: nullptr, or a payload object whose
\* has_been_customized() answer is fixed by its dynamic type.
Payloads == {Null, [kind |-> "Payload", customized |-> FALSE],
                   [kind |-> "Payload", customized |-> TRUE]}

has_been_customized(payload) == payload.customized

QoSProfiles == {[depth |-> 1], [depth |-> 10]}

\* rclcpp::QoS::get_rmw_qos_profile()
get_rmw_qos_profile(qos) == [history |-> "KEEP_LAST", depth |-> qos.depth]

RclRet == {"RCL_RET_OK", "RCL_RET_ERROR", "RCL_RET_INVALID_ARGUMENT"}

\* rmw_subscription_options_t values a payload hook may leave behind.
RmwSubscriptionOptions ==
  [ignore_local_publications : BOOLEAN,
   require_unique_network_flow_endpoints : UniqueNetworkFlowValues]

\* ------------------------------------------------------- policy instance
\* SubscriptionOptionsBase defaults followed by the members of
\* SubscriptionOptionsWithAllocator.
DefaultOptions ==
  [ignore_local_publications |-> FALSE,
   require_unique_network_flow_endpoints |->
     "RMW_UNIQUE_NETWORK_FLOW_ENDPOINTS_NOT_REQUIRED",
   rmw_implementation_payload |-> Null,
   content_filter_options |->
     [filter_expression |-> "", expression_parameters |-> <<>>],
   allocator |-> Null,
   allocator_storage_ |-> Null,
   plain_allocator_storage_ |-> Null]

\* The public (caller-assignable) part of a policy instance.
PublicFields(p) ==
  [ignore_local_publications |-> p.ignore_local_publications,
   require_unique_network_flow_endpoints |->
     p.require_unique_network_flow_endpoints,
   rmw_implementation_payload |-> p.rmw_implementation_payload,
   content_filter_options |-> p.content_filter_options,
   allocator |-> p.allocator]

\* The private cache slots of a policy instance.
CacheSlots(p) ==
  [allocator_storage_ |-> p.allocator_storage_,
   plain_allocator_storage_ |-> p.plain_allocator_storage_]

\* ------------------------------------------------------- get_allocator()
\* Result: the instance after the call, the returned shared_ptr and the next
\* unused heap id.
get_allocator_always_new(p, id) ==
  IF p.allocator = Null
  THEN LET a == make_shared_Allocator(id)
       IN [self |-> [p EXCEPT !.allocator_storage_ = a], ret |-> a,
           next |-> id + 1]
  ELSE [self |-> p, ret |-> p.allocator, next |-> id]

get_allocator(p, id) ==
  IF p.allocator = Null
  THEN IF p.allocator_storage_ = Null
       THEN LET a == make_shared_Allocator(id)
            IN [self |-> [p EXCEPT !.allocator_storage_ = a], ret |-> a,
                next |-> id + 1]
       ELSE [self |-> p, ret |-> p.allocator_storage_, next |-> id]
  ELSE [self |-> p, ret |-> p.allocator, next |-> id]

\* --------------------------------------------------- get_rcl_allocator()
get_rcl_allocator_rederive(p, id) ==
  LET g == get_allocator(p, id)
      plain == make_shared_PlainAllocator(g.next, g.ret)
  IN [self |-> [g.self EXCEPT !.plain_allocator_storage_ = plain],
      ret |-> rcl_allocator_t(plain), next |-> g.next + 1]

get_rcl_allocator_default_source(p, id) ==
  IF p.plain_allocator_storage_ = Null
  THEN LET a == make_shared_Allocator(id)
           plain == make_shared_PlainAllocator(id + 1, a)
       IN [self |-> [p EXCEPT !.plain_allocator_storage_ = plain],
           ret |-> rcl_allocator_t(plain), next |-> id + 2]
  ELSE [self |-> p, ret |-> rcl_allocator_t(p.plain_allocator_storage_),
        next |-> id]

get_rcl_allocator(p, id) ==
  IF p.plain_allocator_storage_ = Null
  THEN LET g == get_allocator(p, id)
           plain == make_shared_PlainAllocator(g.next, g.ret)
       IN [self |-> [g.self EXCEPT !.plain_allocator_storage_ = plain],
           ret |-> rcl_allocator_t(plain), next |-> g.next + 1]
  ELSE [self |-> p, ret |-> rcl_allocator_t(p.plain_allocator_storage_),
        next |-> id]

\* ---------------------------------------- to_rcl_subscription_options()
\* rcl_subscription_get_default_options()
rcl_subscription_get_default_options ==
  [allocator |-> [state |-> Null],
   qos |-> [history |-> "SYSTEM_DEFAULT", depth |-> 0],
   rmw_subscription_options |->
     [ignore_local_publications |-> FALSE,
      require_unique_network_flow_endpoints |->
        "RMW_UNIQUE_NETWORK_FLOW_ENDPOINTS_NOT_REQUIRED",
      content_filter_options |-> Null]]

\* Baseline population of the result: the allocator, qos,
\* ignore_local_publications and require_unique_network_flow_endpoints
\* assignments, given the descriptor get_rcl_allocator() returned.
populate_drop_ignore(p, qos, descriptor) ==
  [rcl_subscription_get_default_options EXCEPT
     !.allocator = descriptor,
     !.qos = get_rmw_qos_profile(qos),
     !.rmw_subscription_options.require_unique_network_flow_endpoints =
        p.require_unique_network_flow_endpoints]

populate(p, qos, descriptor) ==
  [rcl_subscription_get_default_options EXCEPT
     !.allocator = descriptor,
     !.qos = get_rmw_qos_profile(qos),
     !.rmw_subscription_options.ignore_local_publications =
        p.ignore_local_publications,
     !.rmw_subscription_options.require_unique_network_flow_endpoints =
        p.require_unique_network_flow_endpoints]

\* The condition guarding the payload hook.
payload_applies_if_present(p) == p.rmw_implementation_payload # Null

payload_applies(p) ==
  /\ p.rmw_implementation_payload # Null
  /\ has_been_customized(p.rmw_implementation_payload)

\* The hook may rewrite the fields of the rmw sub-structure it is handed.
modify_rmw_subscription_options(rmw_opts, new) ==
  [rmw_opts EXCEPT
     !.ignore_local_publications = new.ignore_local_publications,
     !.require_unique_network_flow_endpoints =
        new.require_unique_network_flow_endpoints]

\* A const char * is modelled by the place whose characters it points at.
get_c_string(place) == [c_str |-> place]

\* get_c_vector_string(): one pointer per element, pushed back in order.
RECURSIVE c_vector_from(_, _)
c_vector_from(i, n) ==
  IF i > n THEN <<>>
  ELSE <<get_c_string(<<"expression_parameters", i>>)>> \o c_vector_from(i + 1, n)

get_c_vector_string(strings_in) == c_vector_from(1, Len(strings_in))

\* What a pointer handed to the collaborator reads, while the policy p lives.
Deref(p, ptr) ==
  IF ptr.c_str = <<"filter_expression">>
  THEN p.content_filter_options.filter_expression
  ELSE p.content_filter_options.expression_parameters[ptr.c_str[2]]

\* Whether the content-filter block is entered.
wants_content_filter_always(p) == TRUE

wants_content_filter(p) == p.content_filter_options.filter_expression # ""

\* The arguments of the rcl_subscription_options_set_content_filter_options
\* call: expression, cstrings.size(), cstrings.data().
content_filter_args_short(p) ==
  LET cstrings == get_c_vector_string(p.content_filter_options.expression_parameters)
  IN [expression |-> get_c_string(<<"filter_expression">>),
      count |-> IF Len(cstrings) = 0 THEN 0 ELSE Len(cstrings) - 1,
      data |-> IF Len(cstrings) = 0 THEN <<>> ELSE Tail(cstrings)]

content_filter_args(p) ==
  LET cstrings == get_c_vector_string(p.content_filter_options.expression_parameters)
  IN [expression |-> get_c_string(<<"filter_expression">>),
      count |-> Len(cstrings),
      data |-> cstrings]

\* rclcpp::exceptions::throw_from_rcl_error(ret, prefix)
throw_from_rcl_error(ret, prefix) ==
  [exception |-> IF ret = "RCL_RET_INVALID_ARGUMENT"
                 THEN "RCLInvalidArgument" ELSE "RCLError",
   ret |-> ret, prefix |-> prefix]

\* How the call ends once the collaborator has answered ret.
filter_outcome_swallow(ret, res) == [kind |-> "returned", value |-> res]

filter_outcome(ret, res) ==
  IF "RCL_RET_OK" # ret
  THEN [kind |-> "thrown",
        error |-> throw_from_rcl_error(ret, "failed to set content_filter_options")]
  ELSE [kind |-> "returned", value |-> res]

\* The collaborator's effect on the options it is handed when it succeeds:
\* it stores copies of what the pointers read.
set_content_filter_options(p, args, res) ==
  [res EXCEPT !.rmw_subscription_options.content_filter_options =
     [filter_expression |-> Deref(p, args.expression),
      expression_parameters |-> [k \in 1..args.count |-> Deref(p, args.data[k])]]]

\* ------------------------------------------------ construction and copies
\* SubscriptionOptionsWithAllocator(const SubscriptionOptionsBase &): the
\* base sub-object is copied, the derived members take their initializers.
construct_from_base(base) ==
  [ignore_local_publications |-> base.ignore_local_publications,
   require_unique_network_flow_endpoints |->
     base.require_unique_network_flow_endpoints,
   rmw_implementation_payload |-> base.rmw_implementation_payload,
   content_filter_options |-> base.content_filter_options,
   allocator |-> Null,
   allocator_storage_ |-> Null,
   plain_allocator_storage_ |-> Null]

\* The implicitly-defined copy constructor / copy assignment: memberwise,
\* the two mutable shared_ptr slots included.
memberwise_copy(src) ==
  [ignore_local_publications |-> src.ignore_local_publications,
   require_unique_network_flow_endpoints |->
     src.require_unique_network_flow_endpoints,
   rmw_implementation_payload |-> src.rmw_implementation_payload,
   content_filter_options |-> src.content_filter_options,
   allocator |-> src.allocator,
   allocator_storage_ |-> src.allocator_storage_,
   plain_allocator_storage_ |-> src.plain_allocator_storage_]

\* ------------------------------------------------------------------ state
VARIABLES
  constructed,        \* the policy instances that currently exist
  opts,               \* instance -> its fields and cache slots
  nextId,             \* next unused heap id
  pc,                 \* position inside to_rcl_subscription_options()
  self,               \* the instance whose call is in progress (0: none)
  result,             \* the local rcl_subscription_options_t being built
  events,             \* collaborator calls made by the current/last call
  last,               \* the step just taken; for a call, how it ended and whether an
                      \* earlier call of it had returned on the instance
  gaFirst,            \* instance -> allocator field value -> first get_allocator() result under it
  descriptors,        \* instance -> allocator descriptors it has returned
  lowerCalled,        \* instance -> to_rcl_subscription_options() was called
  allocAtFirstLower   \* instance -> allocator field at the first lowering

vars == <<constructed, opts, nextId, pc, self, result, events, last, gaFirst,
          descriptors, lowerCalled, allocAtFirstLower>>

history == <<gaFirst, descriptors, lowerCalled, allocAtFirstLower>>

Unset == [kind |-> "unset"]
NoResult == [kind |-> "none"]

Init ==
  /\ constructed = {1}
  /\ opts = [i \in Inst |-> DefaultOptions]
  /\ nextId = 1
  /\ pc = "idle"
  /\ self = 0
  /\ result = NoResult
  /\ events = <<>>
  /\ last = [op |-> "construct", inst |-> 1, outcome |-> NoResult]
  /\ gaFirst = [i \in Inst |-> [f \in AllocatorValues |-> Unset]]
  /\ descriptors = [i \in Inst |-> {}]
  /\ lowerCalled = [i \in Inst |-> FALSE]
  /\ allocAtFirstLower = [i \in Inst |-> Unset]

\* ------------------------------------------- assignments to public fields
Assign(i, p) ==
  /\ pc = "idle"
  /\ i \in constructed
  /\ opts' = [opts EXCEPT ![i] = p]
  /\ last' = [op |-> "assign", inst |-> i, outcome |-> NoResult]
  /\ events' = <<>>
  /\ UNCHANGED <<constructed, nextId, pc, self, result, history>>

SetIgnoreLocalPublications(i) ==
  \E b \in BOOLEAN :
    Assign(i, [opts[i] EXCEPT !.ignore_local_publications = b])

SetRequireUniqueNetworkFlowEndpoints(i) ==
  \E v \in UniqueNetworkFlowValues :
    Assign(i, [opts[i] EXCEPT !.require_unique_network_flow_endpoints = v])

SetRmwImplementationPayload(i) ==
  \E pl \in Payloads :
    Assign(i, [opts[i] EXCEPT !.rmw_implementation_payload = pl])

SetFilterExpression(i) ==
  \E e \in FilterExpressions :
    Assign(i, [opts[i] EXCEPT !.content_filter_options.filter_expression = e])

SetExpressionParameters(i) ==
  \E ps \in ParamLists :
    Assign(i, [opts[i] EXCEPT !.content_filter_options.expression_parameters = ps])

SetAllocator(i) ==
  \E a \in AllocatorValues :
    Assign(i, [opts[i] EXCEPT !.allocator = a])

\* ---------------------------------------------------------- member calls
GetAllocator(i) ==
  /\ pc = "idle"
  /\ i \in constructed
  /\ LET g == get_allocator(opts[i], nextId)
     IN /\ g.next <= MaxObjs + 1
        /\ opts' = [opts EXCEPT ![i] = g.self]
        /\ nextId' = g.next
        /\ last' = [op |-> "get_allocator", inst |-> i,
                    outcome |-> [kind |-> "returned", value |-> g.ret],
                    again |-> gaFirst[i][opts[i].allocator] # Unset]
        /\ gaFirst' = IF gaFirst[i][opts[i].allocator] # Unset THEN gaFirst
                      ELSE [gaFirst EXCEPT ![i][opts[i].allocator] = g.ret]
  /\ events' = <<>>
  /\ UNCHANGED <<constructed, pc, self, result, descriptors,
                 lowerCalled, allocAtFirstLower>>

\* to_rcl_subscription_options(), up to the payload test.
ToRclBegin(i) ==
  /\ pc = "idle"
  /\ i \in constructed
  /\ \E qos \in QoSProfiles :
       LET r == get_rcl_allocator(opts[i], nextId)
           res == populate(r.self, qos, r.ret)
       IN /\ r.next <= MaxObjs + 1
          /\ opts' = [opts EXCEPT ![i] = r.self]
          /\ nextId' = r.next
          /\ result' = res
          /\ events' = <<[ev |-> "populated", seen |-> res]>>
  /\ pc' = "payload"
  /\ self' = i
  /\ last' = [op |-> "to_rcl_subscription_options", inst |-> i,
              outcome |-> [kind |-> "running"]]
  /\ lowerCalled' = [lowerCalled EXCEPT ![i] = TRUE]
  /\ allocAtFirstLower' =
       IF lowerCalled[i] THEN allocAtFirstLower
       ELSE [allocAtFirstLower EXCEPT ![i] = opts[i].allocator]
  /\ UNCHANGED <<constructed, gaFirst, descriptors>>

\* Apply payload to rcl_subscription_options if necessary.
ToRclPayload ==
  /\ pc = "payload"
  /\ IF payload_applies(opts[self])
     THEN \E new \in RmwSubscriptionOptions :
            /\ result' = [result EXCEPT !.rmw_subscription_options =
                            modify_rmw_subscription_options(@, new)]
            /\ events' = Append(events,
                 [ev |-> "modify_rmw_subscription_options", seen |-> result])
     ELSE UNCHANGED <<result, events>>
  /\ pc' = "filter"
  /\ UNCHANGED <<constructed, opts, nextId, self, last, history>>

\* The end of a to_rcl_subscription_options() call.
Finish(out) ==
  /\ last' = [op |-> "to_rcl_subscription_options", inst |-> self,
              outcome |-> out, again |-> descriptors[self] # {}]
  /\ descriptors' =
       IF out.kind = "returned"
       THEN [descriptors EXCEPT ![self] = @ \cup {out.value.allocator}]
       ELSE descriptors
  /\ pc' = "idle"
  /\ self' = 0
  /\ result' = NoResult

\* Copy content_filter_options into rcl_subscription_options, and return.
ToRclFilter ==
  /\ pc = "filter"
  /\ IF wants_content_filter(opts[self])
     THEN \E ret \in RclRet :
            LET args == content_filter_args(opts[self])
                res == IF ret = "RCL_RET_OK"
                       THEN set_content_filter_options(opts[self], args, result)
                       ELSE result
            IN /\ events' = Append(events,
                    [ev |-> "rcl_subscription_options_set_content_filter_options",
                     args |-> args, ret |-> ret])
               /\ Finish(filter_outcome(ret, res))
     ELSE /\ events' = events
          /\ Finish([kind |-> "returned", value |-> result])
  /\ UNCHANGED <<constructed, opts, nextId, gaFirst, lowerCalled,
                 allocAtFirstLower>>

\* ---------------------------------- construction and copies of instances
Fresh(j, p, how) ==
  /\ pc = "idle"
  /\ opts' = [opts EXCEPT ![j] = p]
  /\ constructed' = constructed \cup {j}
  /\ last' = [op |-> how, inst |-> j, outcome |-> NoResult]
  /\ events' = <<>>
  /\ gaFirst' = [gaFirst EXCEPT ![j] = [f \in AllocatorValues |-> Unset]]
  /\ descriptors' = [descriptors EXCEPT ![j] = {}]
  /\ lowerCalled' = [lowerCalled EXCEPT ![j] = FALSE]
  /\ allocAtFirstLower' = [allocAtFirstLower EXCEPT ![j] = Unset]
  /\ UNCHANGED <<nextId, pc, self, result>>

Construct(j) ==
  /\ j \notin constructed
  /\ Fresh(j, DefaultOptions, "construct")

ConstructFromBase(i, j) ==
  /\ i \in constructed
  /\ j \notin constructed
  /\ Fresh(j, construct_from_base(opts[i]), "construct")

CopyConstruct(i, j) ==
  /\ i \in constructed
  /\ j \notin constructed
  /\ Fresh(j, memberwise_copy(opts[i]), "copy")

CopyAssign(i, j) ==
  /\ i \in constructed
  /\ j \in constructed
  /\ i # j
  /\ Fresh(j, memberwise_copy(opts[i]), "copy")

\* --------------------------------------------------------- specifications
\* One policy instance: assignments to its public fields and member calls.
Next ==
  \/ \E i \in Inst : SetIgnoreLocalPublications(i)
  \/ \E i \in Inst : SetRequireUniqueNetworkFlowEndpoints(i)
  \/ \E i \in Inst : SetRmwImplementationPayload(i)
  \/ \E i \in Inst : SetFilterExpression(i)
  \/ \E i \in Inst : SetExpressionParameters(i)
  \/ \E i \in Inst : SetAllocator(i)
  \/ \E i \in Inst : GetAllocator(i)
  \/ \E i \in Inst : ToRclBegin(i)
  \/ ToRclPayload
  \/ ToRclFilter

Spec == Init /\ [][Next]_vars

\* Several policy instances: construction, copies and member calls.
NextCopy ==
  \/ \E j \in Inst : Construct(j)
  \/ \E i, j \in Inst : ConstructFromBase(i, j)
  \/ \E i, j \in Inst : CopyConstruct(i, j)
  \/ \E i, j \in Inst : CopyAssign(i, j)
  \/ \E i \in Inst : GetAllocator(i)
  \/ \E i \in Inst : ToRclBegin(i)
  \/ ToRclPayload
  \/ ToRclFilter

SpecCopy == Init /\ [][NextCopy]_vars

\* ------------------------------------------------------------ properties
IsFilterCall(e) == e.ev = "rcl_subscription_options_set_content_filter_options"
IsHookCall(e) == e.ev = "modify_rmw_subscription_options"

\* The collaborator calls / hook invocations of the current or last lowering.
FilterCalls == SelectSeq(events, IsFilterCall)
HookCalls == SelectSeq(events, IsHookCall)

\* A to_rcl_subscription_options() call on i has just ended.
Completed(i) ==
  /\ last.op = "to_rcl_subscription_options"
  /\ last.inst = i
  /\ last.outcome.kind \in {"returned", "thrown"}

Returned(i) == Completed(i) /\ last.outcome.kind = "returned"

\* C1 as stated: all get_allocator() calls made on an instance so far
\* returned the same allocator instance, whatever was assigned in between.
C1_AnyTwoCallsSameInstance ==
  \A i \in constructed :
    (last.op = "get_allocator" /\ last.inst = i) =>
      \A f \in AllocatorValues :
        gaFirst[i][f] # Unset => last.outcome.value = gaFirst[i][f]

\* C1, amended: any two get_allocator() calls on an instance made while its
\* `allocator` field holds the same value returned the same allocator
\* instance, whatever member calls and public-field assignments came between.
C1_SameFieldSameInstance ==
  \A i \in constructed :
    (last.op = "get_allocator" /\ last.inst = i) =>
      last.outcome.value = gaFirst[i][opts[i].allocator]

C1_Witness ==
  /\ last.op = "get_allocator"
  /\ last.inst = 1
  /\ last.again
  /\ opts[1].allocator = Null
  /\ last.outcome.value = opts[1].allocator_storage_
  /\ \E a \in UserAllocators : gaFirst[1][a] # Unset

\* C2: no two distinct policy instances hold the same cached allocator
\* instance or the same cached byte-allocator instance.
C2_CacheNeverShared ==
  \A i, j \in constructed :
    i # j =>
      /\ opts[i].allocator_storage_ # Null =>
           opts[i].allocator_storage_ # opts[j].allocator_storage_
      /\ opts[i].plain_allocator_storage_ # Null =>
           opts[i].plain_allocator_storage_ # opts[j].plain_allocator_storage_

\* C3 as stated: every returned native options value carries the policy's
\* ignore_local_publications, a customized payload included.
C3_IgnoreAlwaysMirrored ==
  \A i \in constructed :
    Returned(i) =>
      last.outcome.value.rmw_subscription_options.ignore_local_publications
        = opts[i].ignore_local_publications

\* C3, amended: the returned ignore_local_publications equals the policy's
\* whenever the payload hook does not run (payload absent or not customized);
\* when the hook runs, the field holds the policy's value on entry to the hook.
C3_IgnoreMirroredWithoutHook ==
  \A i \in constructed :
    /\ (Returned(i) /\ ~payload_applies(opts[i])) =>
         last.outcome.value.rmw_subscription_options.ignore_local_publications
           = opts[i].ignore_local_publications
    /\ Completed(i) =>
         \A k \in 1..Len(HookCalls) :
           HookCalls[k].seen.rmw_subscription_options.ignore_local_publications
             = opts[i].ignore_local_publications

C3_Witness ==
  /\ Returned(1)
  /\ opts[1].rmw_implementation_payload = [kind |-> "Payload", customized |-> FALSE]
  /\ opts[1].ignore_local_publications
  /\ last.outcome.value.rmw_subscription_options.ignore_local_publications

\* C4: when the filter expression is non-empty and the collaborator answers a
\* status other than RCL_RET_OK, the call ends by raising an error carrying
\* exactly that status, returns no value, and made exactly one collaborator
\* call.
C4_FilterFailureIsRaised ==
  \A i \in constructed :
    (Completed(i) /\ opts[i].content_filter_options.filter_expression # "") =>
      \A k \in 1..Len(FilterCalls) :
        FilterCalls[k].ret # "RCL_RET_OK" =>
          /\ last.outcome.kind = "thrown"
          /\ last.outcome.error.ret = FilterCalls[k].ret
          /\ Len(FilterCalls) = 1

C4_Witness ==
  /\ Completed(1)
  /\ opts[1].content_filter_options.filter_expression # ""
  /\ Len(FilterCalls) = 1
  /\ FilterCalls[1].ret = "RCL_RET_INVALID_ARGUMENT"
  /\ last.outcome.kind = "thrown"
  /\ last.outcome.error.ret = "RCL_RET_INVALID_ARGUMENT"

\* C5: with an empty filter expression the collaborator is never called and
\* the call returns a value, whatever the parameter list and other fields.
C5_EmptyFilterNeverCalls ==
  /\ \A i \in constructed :
       (Completed(i) /\ opts[i].content_filter_options.filter_expression = "") =>
         /\ last.outcome.kind = "returned"
         /\ Len(FilterCalls) = 0
  /\ (pc # "idle" /\ opts[self].content_filter_options.filter_expression = "") =>
       Len(FilterCalls) = 0

C5_Witness ==
  /\ Returned(1)
  /\ opts[1].content_filter_options.filter_expression = ""
  /\ Len(opts[1].content_filter_options.expression_parameters) > 0
  /\ payload_applies(opts[1])
  /\ Len(FilterCalls) = 0

C7_ParametersMarshalledInOrder ==
  \A i \in constructed :
    (Completed(i) /\ opts[i].content_filter_options.filter_expression # "") =>
      /\ Len(FilterCalls) = 1
      /\ LET c == FilterCalls[1].args
             ps == opts[i].content_filter_options.expression_parameters
         IN /\ Deref(opts[i], c.expression) =
                 opts[i].content_filter_options.filter_expression
            /\ c.count = Len(ps)
            /\ Len(c.data) = Len(ps)
            /\ \A k \in 1..Len(ps) :
                 /\ c.data[k].c_str = <<"expression_parameters", k>>
                 /\ Deref(opts[i], c.data[k]) = ps[k]

C7_Witness ==
  /\ Completed(1)
  /\ opts[1].content_filter_options.filter_expression # ""
  /\ opts[1].content_filter_options.expression_parameters = <<"a", "b">>
  /\ Len(FilterCalls) = 1
  /\ FilterCalls[1].args.count = 2
  /\ Deref(opts[1], FilterCalls[1].args.data[2]) = "b"

\* C8: the payload hook runs iff the payload is present and customized; it
\* runs once, after the allocator, qos, ignore_local_publications and
\* require_unique_network_flow_endpoints fields are populated and before the
\* content-filter collaborator is called.
C8_HookIffCustomizedAndOrdered ==
  \A i \in constructed :
    Completed(i) =>
      /\ Len(HookCalls) = (IF /\ opts[i].rmw_implementation_payload # Null
                              /\ opts[i].rmw_implementation_payload.customized
                           THEN 1 ELSE 0)
      /\ \A k \in 1..Len(events) :
           IsHookCall(events[k]) =>
             /\ k = 2
             /\ events[1].ev = "populated"
             /\ events[k].seen = events[1].seen
             /\ events[k].seen.allocator =
                  rcl_allocator_t(opts[i].plain_allocator_storage_)
             /\ events[k].seen.qos.history = "KEEP_LAST"
             /\ events[k].seen.rmw_subscription_options.ignore_local_publications
                  = opts[i].ignore_local_publications
             /\ events[k].seen.rmw_subscription_options.require_unique_network_flow_endpoints
                  = opts[i].require_unique_network_flow_endpoints
             /\ \A m \in 1..Len(events) : IsFilterCall(events[m]) => m > k

C8_Witness ==
  /\ Completed(1)
  /\ payload_applies(opts[1])
  /\ Len(HookCalls) = 1
  /\ Len(FilterCalls) = 1
  /\ opts[1].require_unique_network_flow_endpoints =
       "RMW_UNIQUE_NETWORK_FLOW_ENDPOINTS_STRICTLY_REQUIRED"

\* get_allocator() has been called on instance i before.
GetAllocatorCalled(i) == \E f \in AllocatorValues : gaFirst[i][f] # Unset

\* A step of a member call on instance i.
IsGetAllocatorStep(i) == last'.op = "get_allocator" /\ last'.inst = i
IsLoweringStart(i) == pc = "idle" /\ pc' = "payload" /\ self' = i
IsCallStep ==
  last'.op \in {"get_allocator", "to_rcl_subscription_options"}

\* C9 as stated: only the first get_allocator() call and the first
\* to_rcl_subscription_options() call on an instance may change its cached
\* slots, and no call changes a public field.
C9_OnlyFirstCallWrites ==
  [][\A i \in Inst :
       /\ (IsGetAllocatorStep(i) /\ GetAllocatorCalled(i)) =>
            CacheSlots(opts'[i]) = CacheSlots(opts[i])
       /\ (IsLoweringStart(i) /\ lowerCalled[i]) =>
            CacheSlots(opts'[i]) = CacheSlots(opts[i])
       /\ IsCallStep => PublicFields(opts'[i]) = PublicFields(opts[i])]_vars

\* C9, amended: a call changes a cached slot only if it finds that slot
\* empty.  get_allocator() never touches plain_allocator_storage_ and fills
\* allocator_storage_ only when it is empty and `allocator` is null (possibly
\* on a later call); every to_rcl_subscription_options() call after the first
\* leaves both slots unchanged; no call changes a public field.
C9_OnlyEmptySlotsAreFilled ==
  [][\A i \in Inst :
       /\ IsGetAllocatorStep(i) =>
            /\ opts'[i].plain_allocator_storage_ = opts[i].plain_allocator_storage_
            /\ (opts[i].allocator # Null \/ opts[i].allocator_storage_ # Null) =>
                 opts'[i].allocator_storage_ = opts[i].allocator_storage_
       /\ (IsLoweringStart(i) /\ lowerCalled[i]) =>
            CacheSlots(opts'[i]) = CacheSlots(opts[i])
       /\ IsCallStep =>
            /\ PublicFields(opts'[i]) = PublicFields(opts[i])
            /\ opts[i].allocator_storage_ # Null =>
                 opts'[i].allocator_storage_ = opts[i].allocator_storage_
            /\ opts[i].plain_allocator_storage_ # Null =>
                 opts'[i].plain_allocator_storage_ = opts[i].plain_allocator_storage_]_vars

C9_Witness ==
  /\ last.op = "get_allocator"
  /\ last.inst = 1
  /\ last.again
  /\ opts[1].allocator = Null
  /\ \E a \in UserAllocators : gaFirst[1][a] # Unset
  /\ descriptors[1] # {}
  /\ opts[1].allocator_storage_ # Null
  /\ opts[1].plain_allocator_storage_ # Null

\* C10 as stated: the byte allocator wrapped by a returned descriptor was
\* derived from the allocator get_allocator() returns at that moment.
C10_PlainFromCurrentAllocator ==
  \A i \in constructed :
    Returned(i) =>
      last.outcome.value.allocator.state.from =
        get_allocator(opts[i], nextId).ret.id

\* C10, amended: that holds whenever the `allocator` field has the value it
\* had at the instance's first to_rcl_subscription_options() call; the byte
\* allocator derived at that first call is the one wrapped ever after.
C10_PlainFromAllocatorAtFirstLowering ==
  \A i \in constructed :
    (Returned(i) /\ opts[i].allocator = allocAtFirstLower[i]) =>
      last.outcome.value.allocator.state.from =
        get_allocator(opts[i], nextId).ret.id

C10_Witness ==
  /\ Returned(1)
  /\ last.again
  /\ allocAtFirstLower[1] \in UserAllocators
  /\ opts[1].allocator = allocAtFirstLower[1]
  /\ GetAllocatorCalled(1)
  /\ last.outcome.value.allocator.state.from = opts[1].allocator.id

====
